---- MODULE Spec2Model ----
(***************************************************************************)
(* DMX512 serial transport (csrc/dmx.c, include/dmx.h).                    *)
(*                                                                         *)
(* The file holds two implementations selected by #ifdef _WIN32.  Both are *)
(* modelled; `platform` records which one the build selected.  The         *)
(* operating system's serial driver is the environment: the outcome of     *)
(* each OS primitive (open, tcgetattr, tcsetattr, write, read, CreateFileA,*)
(* GetCommState, SetCommState, WriteFile, ReadFile, ...) is chosen         *)
(* nondeterministically among the results that primitive can produce.      *)
(* Every public function is one action, and `last` records what the last   *)
(* call was given, what the OS primitives reported and what it returned.   *)
(***************************************************************************)
EXTENDS Integers, Sequences, FiniteSets, TLC

VARIABLES platform, osOpen, attrs, rx, line, owned, last

vars == <<platform, osOpen, attrs, rx, line, owned, last>>

----------------------------------------------------------------------------
(* Bounds of the model *)

\* most OS handles open at the same time
MaxOpen == 2
\* longest buffer handed to dmx_write / largest max_len of dmx_read_frame
MaxLen == 2
\* capacity of a port's receive queue: one buffer of the longest length
MaxRx == MaxLen
\* how much longer than asked a sleep may last (usleep: microseconds,
\* Sleep: milliseconds): not at all, or one unit
Oversleep == {0, 1}
\* width of the C type int, scaled down; a pointer is twice as wide
IntBits == 4

PtrBits == 2 * IntBits

\* the serial ports of the machine
Ports == {1}

\* the loopback fixture: a port's transmit line is wired to the receive line
\* of its paired end, here the port's own receiver
Peer(p) == p

\* byte values a caller sends: the null start code and a carriage return
Bytes == {0, 13}

\* the buffers a caller writes: the null start code, then channel values
Buffers == {b \in UNION {[1..n -> Bytes] : n \in 1..MaxLen} : b[1] = 0}

----------------------------------------------------------------------------
(* Program constants *)

\* dmx.c:92-93 (Unix), dmx.c:23 (Windows)
B250000 == 250000
\* dmx.c:24
ByteSize8 == 8
\* dmx.c:105, usleep(12)
MabSleepUs == 12
\* dmx.c:42, Sleep(1) in milliseconds
BreakSleepMs == 1
\* dmx.c:102, tcsendbreak(fd, 0) holds the break 250 to 500 ms
TcBreakMinUs == 250000
TcBreakMaxUs == 500000
\* DMX512 minimum widths quoted at dmx.c:40 and dmx.c:45
MinBreakUs == 88
MinMabUs == 8

----------------------------------------------------------------------------
(* Line attributes *)

\* c_cflag bits of struct termios used or left alone by dmx_open;
\* CSIZE is the two-bit field {CSIZE0, CSIZE1}: CS5 = {}, CS6 = {CSIZE0},
\* CS7 = {CSIZE1}, CS8 = both
CFlags == {"CSIZE0", "CSIZE1", "CSTOPB", "PARENB"}
CS8 == {"CSIZE0", "CSIZE1"}
CSTOPB == {"CSTOPB"}
\* c_iflag bits: ICRNL maps a received carriage return to new line
IFlags == {"ICRNL"}

\* line speeds: the one dmx_open asks for and one a device may have had before
Speeds == {9600, B250000}

Termios == [ispeed : Speeds, ospeed : Speeds,
            cflag : SUBSET CFlags, iflag : SUBSET IFlags]

DCB == [BaudRate : Speeds, ByteSize : {7, ByteSize8},
        Parity : {"NOPARITY", "EVENPARITY"},
        StopBits : {"ONESTOPBIT", "TWOSTOPBITS"}]

\* attributes a device can have before the program first opens it:
\* 9600 baud, 8N1 or 7E1, with or without the terminal's CR-to-NL mapping
InitialTermios ==
    {t \in Termios : /\ t.ispeed = 9600 /\ t.ospeed = 9600
                     /\ t.cflag \in {CS8, {"CSIZE1", "PARENB"}}}
InitialDCB ==
    {d \in DCB : /\ d.BaudRate = 9600 /\ d.StopBits = "ONESTOPBIT"
                 /\ (d.ByteSize = 7) = (d.Parity = "EVENPARITY")}

\* what the uninitialised struct termios of dmx_open may hold when tcgetattr
\* fails: any bit pattern; the speeds and CS8 | CSTOPB are overwritten, so
\* all flags clear and all flags set stand for the rest
GarbageTermios ==
    {t \in Termios : /\ t.ispeed = 9600 /\ t.ospeed = 9600
                     /\ t.cflag \in {{}, CFlags}}

\* what a line is configured as, read off the platform's attribute structure
Baud(a) == IF platform = "unix" THEN a.ospeed ELSE a.BaudRate
DataBits(a) ==
    IF platform = "unix"
    THEN 5 + (IF "CSIZE0" \in a.cflag THEN 1 ELSE 0)
           + (IF "CSIZE1" \in a.cflag THEN 2 ELSE 0)
    ELSE a.ByteSize
ParityOn(a) ==
    IF platform = "unix" THEN "PARENB" \in a.cflag ELSE a.Parity # "NOPARITY"
StopBits(a) ==
    IF platform = "unix"
    THEN (IF "CSTOPB" \in a.cflag THEN 2 ELSE 1)
    ELSE (IF a.StopBits = "TWOSTOPBITS" THEN 2 ELSE 1)

----------------------------------------------------------------------------
(* Handles *)

\* Unix: a file descriptor is a non-negative int
UnixFds == 0..(MaxOpen - 1)

\* Windows: a HANDLE is a pointer-sized value.  The values the OS may hand out
\* here: one that fits an int, one with the int's sign bit set, one that needs
\* more bits than an int has.
WinHandles == {2, 2^(IntBits - 1) + 4, 2^IntBits + 4}
INVALID_HANDLE_VALUE == 2^PtrBits - 1

\* (int)(intptr_t)handle: keeps the low IntBits bits, read as two's complement
ToInt(h) ==
    LET m == h % 2^IntBits
    IN IF m >= 2^(IntBits - 1) THEN m - 2^IntBits ELSE m

\* (HANDLE)(intptr_t)fd: sign-extends the int to pointer width
ToHandle(fd) == IF fd < 0 THEN fd + 2^PtrBits ELSE fd

NoHandles == [x \in {} |-> 0]

Extend(f, k, v) == [x \in DOMAIN f \cup {k} |-> IF x = k THEN v ELSE f[x]]
Remove(f, k) == [x \in DOMAIN f \ {k} |-> f[x]]

Min(a, b) == IF a < b THEN a ELSE b

\* the observation record, with every field at its neutral value
NoObs == [op |-> "none", fd |-> -1, port |-> 0, ret |-> 0, path |-> "none",
          before |-> {}, cfgErr |-> FALSE, osErr |-> FALSE, errno |-> "none",
          calls |-> 0, accepted |-> 0, data |-> <<>>, length |-> 0,
          trace |-> <<>>, target |-> -1, opened |-> -1, sent |-> <<>>,
          wrote |-> 0, pending |-> 0]

Init ==
    /\ platform \in {"unix", "win"}
    /\ osOpen = NoHandles
    /\ \E a \in (IF platform = "unix" THEN InitialTermios ELSE InitialDCB) :
          attrs = [p \in Ports |-> a]
    /\ rx = [p \in Ports |-> <<>>]
    /\ line = [p \in Ports |-> "MARK"]
    /\ owned = NoHandles
    /\ last = NoObs

----------------------------------------------------------------------------
(* dmx_open *)

\* the port's receive queue is flushed when its last handle goes away
Flush(q, open, p) ==
    IF \E h \in DOMAIN open : open[h] = p THEN q ELSE [q EXCEPT ![p] = <<>>]

\* dmx.c:92-94: cfsetispeed, cfsetospeed, c_cflag |= CS8 | CSTOPB
SetDmxTermios(options) ==
    [options EXCEPT !.ispeed = B250000, !.ospeed = B250000,
                    !.cflag = @ \cup CS8 \cup CSTOPB]

\* dmx.c:86-98.  fd is what open() returned (-1: failure), getOk and setOk
\* whether tcgetattr and tcsetattr succeeded, dev the device's attributes and
\* garbage the content of the uninitialised `options` when tcgetattr fails.
\* keep: the descriptor is still open on return; dev: the attributes the
\* device has afterwards.
dmx_open_unix_body(fd, getOk, setOk, dev, garbage) ==
    IF fd < 0
    THEN [ret |-> -1, path |-> "open_failed", keep |-> FALSE, dev |-> dev]
    ELSE LET options == SetDmxTermios(IF getOk THEN dev ELSE garbage)
         IN [ret |-> fd, path |-> "ok", keep |-> TRUE,
             dev |-> IF setOk THEN options ELSE dev]

\* dmx.c:23-26
SetDmxDCB(dcb) ==
    [dcb EXCEPT !.BaudRate = B250000, !.ByteSize = ByteSize8,
                !.Parity = "NOPARITY", !.StopBits = "TWOSTOPBITS"]

\* dmx_open without the CloseHandle of dmx.c:29: the handle stays open when
\* SetCommState fails
dmx_open_win_body_leak(handle, getOk, setOk, dev) ==
    IF handle = INVALID_HANDLE_VALUE
    THEN [ret |-> -1, path |-> "open_failed", keep |-> FALSE, dev |-> dev]
    ELSE IF ~getOk
    THEN [ret |-> -1, path |-> "config_failed", keep |-> FALSE, dev |-> dev]
    ELSE IF ~setOk
    THEN [ret |-> -1, path |-> "config_failed", keep |-> TRUE, dev |-> dev]
    ELSE [ret |-> ToInt(handle), path |-> "ok", keep |-> TRUE,
          dev |-> SetDmxDCB(dev)]

\* dmx.c:6-35.  handle is what CreateFileA returned, getOk and setOk whether
\* GetCommState and SetCommState succeeded.
dmx_open_win_body(handle, getOk, setOk, dev) ==
    IF handle = INVALID_HANDLE_VALUE
    THEN [ret |-> -1, path |-> "open_failed", keep |-> FALSE, dev |-> dev]
    ELSE IF ~getOk
    THEN [ret |-> -1, path |-> "config_failed", keep |-> FALSE, dev |-> dev]
    ELSE IF ~setOk
    THEN [ret |-> -1, path |-> "config_failed", keep |-> FALSE, dev |-> dev]
    ELSE [ret |-> ToInt(handle), path |-> "ok", keep |-> TRUE,
          dev |-> SetDmxDCB(dev)]

\* the effect of a dmx_open call on the state: h is the OS handle acquired
\* (negative / INVALID_HANDLE_VALUE: none), r the body's result.  The caller
\* keeps a returned value >= 0 as its handle.
OpenEffect(port, h, acquired, cfgErr, r) ==
    /\ osOpen' = IF acquired /\ r.keep THEN Extend(osOpen, h, port) ELSE osOpen
    /\ attrs' = [attrs EXCEPT ![port] = r.dev]
    /\ owned' = IF r.ret >= 0 THEN Extend(owned, r.ret, h) ELSE owned
    /\ last' = [NoObs EXCEPT !.op = "open", !.port = port, !.ret = r.ret,
                             !.path = r.path, !.before = DOMAIN osOpen,
                             !.osErr = ~acquired, !.cfgErr = cfgErr,
                             !.opened = IF acquired THEN h ELSE -1]
    /\ UNCHANGED <<platform, rx, line>>

dmx_open_unix(port) ==
    /\ platform = "unix"
    /\ Cardinality(DOMAIN osOpen) < MaxOpen
    /\ \E getErr, setErr \in BOOLEAN, openOk \in BOOLEAN :
        \E garbage \in (IF openOk /\ getErr THEN GarbageTermios
                        ELSE {attrs[port]}) :
          LET getOk == ~getErr
              setOk == ~setErr
              free == UnixFds \ DOMAIN osOpen
              \* open() returns the lowest descriptor not in use
              fd == IF openOk
                    THEN CHOOSE f \in free : \A g \in free : f <= g
                    ELSE -1
              r == dmx_open_unix_body(fd, getOk, setOk, attrs[port], garbage)
          IN OpenEffect(port, fd, openOk, openOk /\ (~getOk \/ ~setOk), r)

dmx_open_win(port) ==
    /\ platform = "win"
    /\ Cardinality(DOMAIN osOpen) < MaxOpen
    /\ \E getErr, setErr \in BOOLEAN,
          handle \in (WinHandles \ DOMAIN osOpen) \cup {INVALID_HANDLE_VALUE} :
          \* dwShareMode 0: CreateFileA fails while the port is open
          /\ (\E h \in DOMAIN osOpen : osOpen[h] = port)
                => handle = INVALID_HANDLE_VALUE
          /\ LET ok == handle # INVALID_HANDLE_VALUE
                 r == dmx_open_win_body(handle, ~getErr, ~setErr, attrs[port])
             IN OpenEffect(port, handle, ok, ok /\ (getErr \/ setErr), r)

----------------------------------------------------------------------------
(* dmx_send_break *)

Ev(state, us) == [state |-> state, us |-> us]

\* the state the line is left in after the events of a call
LineAfter(l, port, trace) ==
    IF trace = <<>> THEN l
    ELSE [l EXCEPT ![port] = trace[Len(trace)].state]

\* dmx.c:100-109.  tcsendbreak holds BREAK for breakUs and puts the line back
\* to MARK before it returns; usleep(12) then lasts sleptUs.
dmx_send_break_unix_body(breakUs, sleptUs) ==
    <<Ev("BREAK", breakUs), Ev("MARK", sleptUs)>>

\* dmx.c:37-50.  SetCommBreak, Sleep(1) lasting sleptMs, ClearCommBreak, and
\* the return follows at once.  On a handle the OS does not know the two
\* calls fail and the line is not touched.
dmx_send_break_win_body(valid, sleptMs) ==
    IF valid THEN <<Ev("BREAK", sleptMs * 1000), Ev("MARK", 0)>> ELSE <<>>

dmx_send_break_unix(fd) ==
    /\ platform = "unix"
    /\ fd \in DOMAIN owned
    /\ \E breakUs \in {TcBreakMinUs, TcBreakMaxUs}, over \in Oversleep :
          LET port == osOpen[fd]
              trace == dmx_send_break_unix_body(breakUs, MabSleepUs + over)
          IN /\ line' = LineAfter(line, port, trace)
             /\ last' = [NoObs EXCEPT !.op = "send_break", !.fd = fd,
                                      !.port = port, !.before = DOMAIN osOpen,
                                      !.trace = trace, !.target = fd,
                                      !.opened = owned[fd]]
    /\ UNCHANGED <<platform, osOpen, attrs, rx, owned>>

dmx_send_break_win(fd) ==
    /\ platform = "win"
    /\ fd \in DOMAIN owned
    /\ \E over \in Oversleep :
          LET handle == ToHandle(fd)
              valid == handle \in DOMAIN osOpen
              port == IF valid THEN osOpen[handle] ELSE 0
              trace == dmx_send_break_win_body(valid, BreakSleepMs + over)
          IN /\ line' = LineAfter(line, port, trace)
             /\ last' = [NoObs EXCEPT !.op = "send_break", !.fd = fd,
                                      !.port = port, !.before = DOMAIN osOpen,
                                      !.trace = trace, !.target = handle,
                                      !.opened = owned[fd]]
    /\ UNCHANGED <<platform, osOpen, attrs, rx, owned>>

----------------------------------------------------------------------------
(* dmx_write *)

Take(q, n) == SubSeq(q, 1, n)
Drop(q, n) == SubSeq(q, n + 1, Len(q))

Icrnl(b) == IF b = 13 THEN 10 ELSE b

\* what the receiving port's driver queues for the bytes on the wire: with
\* ICRNL in c_iflag a carriage return arrives as a new line; a Windows comm
\* port has no such input mapping
Received(a, bytes) ==
    IF platform = "unix" /\ "ICRNL" \in a.iflag THEN [i \in 1..Len(bytes) |-> Icrnl(bytes[i])]
    ELSE bytes

IsOpenPort(p) == \E h \in DOMAIN osOpen : osOpen[h] = p

\* how many bytes the driver can take from a buffer of `length` sent from port
Room(port, length) ==
    IF IsOpenPort(Peer(port))
    THEN Min(length, MaxRx - Len(rx[Peer(port)]))
    ELSE length

\* the accepted bytes travel to the paired port, which queues them if open
Transmit(port, bytes) ==
    IF IsOpenPort(Peer(port))
    THEN [rx EXCEPT ![Peer(port)] = @ \o Received(attrs[Peer(port)], bytes)]
    ELSE rx

\* dmx.c:111-113.  w is what the one write() call returned.
dmx_write_unix_body(w) == [ret |-> w, calls |-> 1]

\* dmx_write without the test of WriteFile's result at dmx.c:67
dmx_write_win_body_unchecked(ok, bytes_written) ==
    [ret |-> bytes_written, calls |-> 1]

\* dmx.c:63-72.  ok and bytes_written are what the one WriteFile call gave.
dmx_write_win_body(ok, bytes_written) ==
    IF ~ok THEN [ret |-> -1, calls |-> 1]
    ELSE [ret |-> bytes_written, calls |-> 1]

WriteEffect(fd, handle, port, data, osErr, accepted, r) ==
    /\ rx' = IF port = 0 THEN rx ELSE Transmit(port, Take(data, accepted))
    /\ last' = [NoObs EXCEPT !.op = "write", !.fd = fd, !.port = port,
                             !.ret = r.ret, !.before = DOMAIN osOpen,
                             !.osErr = osErr, !.calls = r.calls,
                             !.accepted = accepted, !.data = data,
                             !.length = Len(data), !.target = handle,
                             !.opened = owned[fd],
                             !.sent = IF port # 0 /\ IsOpenPort(Peer(port))
                                         /\ rx[Peer(port)] = <<>>
                                      THEN data ELSE <<>>]
    /\ UNCHANGED <<platform, osOpen, attrs, line, owned>>

dmx_write_unix(fd, data) ==
    /\ platform = "unix"
    /\ fd \in DOMAIN owned
    /\ \E w \in -1..Room(osOpen[fd], Len(data)) :
          WriteEffect(fd, fd, osOpen[fd], data, w < 0,
                      IF w < 0 THEN 0 ELSE w, dmx_write_unix_body(w))

dmx_write_win(fd, data) ==
    /\ platform = "win"
    /\ fd \in DOMAIN owned
    /\ LET handle == ToHandle(fd)
           valid == handle \in DOMAIN osOpen
           port == IF valid THEN osOpen[handle] ELSE 0
       IN \E ok \in (IF valid THEN BOOLEAN ELSE {FALSE}) :
          \E n \in (IF ok THEN 0..Room(port, Len(data)) ELSE {0}) :
             WriteEffect(fd, handle, port, data, ~ok, n,
                         dmx_write_win_body(ok, n))

----------------------------------------------------------------------------
(* dmx_read_frame *)

\* dmx.c:115-119.  n is what the one read() call returned.
dmx_read_frame_unix_body(n) == IF n < 0 THEN -1 ELSE n

\* dmx.c:52-61.  ok and bytes_read are what the one ReadFile call gave.
dmx_read_frame_win_body(ok, bytes_read) == IF ~ok THEN -1 ELSE bytes_read

ReadEffect(fd, handle, port, max_len, errno, n, ret) ==
    /\ rx' = IF port = 0 THEN rx ELSE [rx EXCEPT ![port] = Drop(@, n)]
    /\ last' = [NoObs EXCEPT !.op = "read", !.fd = fd, !.port = port,
                             !.ret = ret, !.before = DOMAIN osOpen,
                             !.osErr = errno # "none", !.errno = errno,
                             !.calls = 1, !.accepted = n,
                             !.pending = IF port = 0 THEN 0 ELSE Len(rx[port]),
                             !.data = IF port = 0 THEN <<>>
                                      ELSE Take(rx[port], n),
                             !.length = max_len, !.target = handle,
                             !.opened = owned[fd],
                             !.sent = IF last.op = "write" /\ port # 0
                                         /\ last.port # 0
                                         /\ Peer(last.port) = port
                                      THEN last.sent ELSE <<>>,
                             !.wrote = IF last.op = "write" THEN last.ret
                                       ELSE 0]
    /\ UNCHANGED <<platform, osOpen, attrs, line, owned>>

\* read() on the O_NONBLOCK descriptor (dmx.c:87): with nothing queued it
\* fails with EAGAIN, or returns 0 where the device was left in non-canonical
\* mode with VMIN = 0; with bytes queued it returns up to max_len of them;
\* a device error (EIO) can be reported at any time
UnixReadOutcomes(port, max_len) ==
    {[n |-> -1, errno |-> "EIO"]}
    \cup (IF rx[port] = <<>>
          THEN {[n |-> -1, errno |-> "EAGAIN"], [n |-> 0, errno |-> "none"]}
          ELSE {[n |-> Min(max_len, Len(rx[port])), errno |-> "none"]})

dmx_read_frame_unix(fd, max_len) ==
    /\ platform = "unix"
    /\ fd \in DOMAIN owned
    /\ \E o \in UnixReadOutcomes(osOpen[fd], max_len) :
          ReadEffect(fd, fd, osOpen[fd], max_len, o.errno,
                     IF o.n < 0 THEN 0 ELSE o.n, dmx_read_frame_unix_body(o.n))

\* ReadFile returns what is queued, up to max_len bytes, under the port's
\* current timeouts, which dmx_open does not set; a call that would wait for
\* more bytes is not a step of the model
dmx_read_frame_win(fd, max_len) ==
    /\ platform = "win"
    /\ fd \in DOMAIN owned
    /\ LET handle == ToHandle(fd)
           valid == handle \in DOMAIN osOpen
           port == IF valid THEN osOpen[handle] ELSE 0
       IN \E ok \in (IF valid THEN BOOLEAN ELSE {FALSE}) :
             LET n == IF ok THEN Min(max_len, Len(rx[port])) ELSE 0
             IN ReadEffect(fd, handle, port, max_len,
                           IF ok THEN "none" ELSE "ERROR", n,
                           dmx_read_frame_win_body(ok, n))

----------------------------------------------------------------------------
(* dmx_close *)

\* dmx.c:121 and dmx.c:74-77: the OS handle the call closes
dmx_close_unix_body(fd) == fd
dmx_close_win_body(fd) == ToHandle(fd)

CloseEffect(fd, handle) ==
    /\ osOpen' = Remove(osOpen, handle)
    /\ owned' = Remove(owned, fd)
    /\ rx' = IF handle \in DOMAIN osOpen
             THEN Flush(rx, osOpen', osOpen[handle]) ELSE rx
    /\ last' = [NoObs EXCEPT !.op = "close", !.fd = fd,
                             !.before = DOMAIN osOpen, !.target = handle,
                             !.opened = owned[fd]]
    /\ UNCHANGED <<platform, attrs, line>>

dmx_close_unix(fd) ==
    /\ platform = "unix"
    /\ fd \in DOMAIN owned
    /\ CloseEffect(fd, dmx_close_unix_body(fd))

dmx_close_win(fd) ==
    /\ platform = "win"
    /\ fd \in DOMAIN owned
    /\ CloseEffect(fd, dmx_close_win_body(fd))

----------------------------------------------------------------------------

\* the values a caller may hold as handles: anything an int can be
Ints == (-(2^(IntBits - 1)))..(2^(IntBits - 1) - 1)

Next ==
    \/ \E port \in Ports : dmx_open_unix(port)
    \/ \E port \in Ports : dmx_open_win(port)
    \/ \E fd \in Ints : dmx_send_break_unix(fd)
    \/ \E fd \in Ints : dmx_send_break_win(fd)
    \/ \E fd \in Ints, data \in Buffers : dmx_write_unix(fd, data)
    \/ \E fd \in Ints, data \in Buffers : dmx_write_win(fd, data)
    \/ \E fd \in Ints, max_len \in 1..MaxLen : dmx_read_frame_unix(fd, max_len)
    \/ \E fd \in Ints, max_len \in 1..MaxLen : dmx_read_frame_win(fd, max_len)
    \/ \E fd \in Ints : dmx_close_unix(fd)
    \/ \E fd \in Ints : dmx_close_win(fd)

Spec == Init /\ [][Next]_vars

----------------------------------------------------------------------------
(* The handle of the OS that a value of the int interface designates *)

HandleOf(fd) == IF platform = "unix" THEN fd ELSE ToHandle(fd)

IsDmxLine(a) ==
    /\ Baud(a) = B250000
    /\ DataBits(a) = 8
    /\ ~ParityOn(a)
    /\ StopBits(a) = 2

----------------------------------------------------------------------------
(* Claims *)

\* C1: whenever reading or setting the line attributes reports an error after
\* the device was opened, dmx_open returns a negative result.
C1_ConfigFailureFailsOpen ==
    (last.op = "open" /\ last.cfgErr) => last.ret < 0

\* C2: whenever dmx_open leaves by a failure path (the device could not be
\* opened, or the configuration failed after the open), the set of open OS
\* handles is what it was before the call.
C2_NoLeakOnFailure ==
    (last.op = "open" /\ last.path # "ok") => DOMAIN osOpen = last.before

\* C2 witness: the configuration failed on a handle the OS had handed out, and
\* the handle is closed again.
C2_Witness ==
    /\ last.op = "open"
    /\ last.path = "config_failed"
    /\ last.opened # -1
    /\ last.opened \notin DOMAIN osOpen
    /\ DOMAIN osOpen = last.before

\* C3: dmx_read_frame with nothing pending, when the read primitive reports
\* either success or only "no data available", returns 0; and it returns a
\* negative value only when the primitive reports some other error.
C3_NoDataReadsZero ==
    last.op = "read" =>
        /\ (last.pending = 0 /\ last.errno \in {"none", "EAGAIN"})
              => last.ret = 0
        /\ last.ret < 0 => last.errno \notin {"none", "EAGAIN"}

\* C4: after a dmx_open that succeeded and whose configuration calls reported
\* no error, the line is 250000 baud, 8 data bits, no parity, 2 stop bits,
\* whatever the device's attributes were before.
C4_LineIs250000_8N2 ==
    (last.op = "open" /\ last.path = "ok" /\ ~last.cfgErr)
        => IsDmxLine(attrs[last.port])

\* C5: a dmx_send_break on an open handle drives the line to BREAK for at
\* least 88 microseconds, then back to MARK, holds MARK for at least 8
\* microseconds before it returns, and leaves the line in MARK.
C5_BreakThenMab ==
    (last.op = "send_break" /\ last.target = last.opened) =>
        /\ Len(last.trace) = 2
        /\ last.trace[1].state = "BREAK"
        /\ last.trace[1].us >= MinBreakUs
        /\ last.trace[2].state = "MARK"
        /\ last.trace[2].us >= MinMabUs
        /\ line[last.port] = "MARK"

\* C6: dmx_write calls the write primitive once; it returns a negative value
\* exactly when that call reported an error, and otherwise the number of bytes
\* that call accepted, between 0 and length.
C6_WriteOnceNoRetry ==
    last.op = "write" =>
        /\ last.calls = 1
        /\ last.osErr <=> last.ret < 0
        /\ ~last.osErr =>
              (last.ret = last.accepted /\ 0 <= last.ret /\ last.ret <= last.length)

\* C6 witness: a partial write, returned as the smaller count.
C6_Witness ==
    /\ last.op = "write"
    /\ ~last.osErr
    /\ 0 < last.ret
    /\ last.ret < last.length

\* C7: on the loopback fixture, when dmx_write accepted a whole buffer of
\* length L into an empty receiver and the next call is a dmx_read_frame of the
\* paired end with max_len >= L that reports no error, the read returns L
\* bytes equal to the written buffer.
C7_LoopbackRoundTrip ==
    (/\ last.op = "read"
     /\ last.sent # <<>>
     /\ last.wrote = Len(last.sent)
     /\ last.length >= Len(last.sent)
     /\ ~last.osErr)
        => (last.ret = Len(last.sent) /\ last.data = last.sent)

\* C8: dmx_open returns a value >= 0 when it succeeds and a negative value
\* when it fails.
C8_SignTellsSuccess ==
    last.op = "open" =>
        /\ last.path = "ok" => last.ret >= 0
        /\ last.path # "ok" => last.ret < 0

\* C9: dmx_send_break, dmx_write and dmx_read_frame leave the set of open OS
\* handles as it was; a successful dmx_open adds the handle it returns and
\* nothing else; dmx_close removes the handle it is given and nothing else;
\* and once the caller has closed every handle it was given, no OS handle is
\* open.
C9_HandlesChangeOnlyInOpenClose ==
    /\ last.op \in {"send_break", "write", "read"}
          => DOMAIN osOpen = last.before
    /\ (last.op = "open" /\ last.path = "ok")
          => DOMAIN osOpen = last.before \cup {HandleOf(last.ret)}
    /\ last.op = "close"
          => DOMAIN osOpen = last.before \ {last.opened}
    /\ DOMAIN owned = {} => DOMAIN osOpen = {}

\* C10: the value dmx_open returned, passed to dmx_send_break, dmx_write,
\* dmx_read_frame or dmx_close, makes the call act on the OS handle that
\* dmx_open had opened.
C10_HandleIdentity ==
    last.op \in {"send_break", "write", "read", "close"}
        => last.target = last.opened

====
